---- MODULE Spec2Model ----
(***************************************************************************)
(* lipgloss-convert: Import applies textual directives to a lipgloss       *)
(* style, Export renders a style back to text.                             *)
(*                                                                         *)
(* A Go string is modelled as the sequence of its Unicode code points, so  *)
(* that splitting, trimming, the regular expressions, the escapes and the  *)
(* formatting verbs are computed character by character.                   *)
(***************************************************************************)
EXTENDS Integers, Sequences, FiniteSets, TLC

VARIABLES dst, src, input, err, opts, out, back, pc

vars == << dst, src, input, err, opts, out, back, pc >>

(***************************************************************************)
(* Text                                                                    *)
(***************************************************************************)

\* A value given a name: the body B applied to v, which is computed once.
Let(v, B(_)) == B(v)

\* The printable ASCII characters 32..95 and 97..126, in code order.
AsciiLow == " !\"#$%&'()*+,-./0123456789:;<=>?@ABCDEFGHIJKLMNOPQRSTUVWXYZ[\\]^_"

AsciiHigh == "abcdefghijklmnopqrstuvwxyz{|}~"

\* The code point of each one-character literal.
OrdTable ==
  [c \in { SubSeq(AsciiLow, i, i) : i \in 1..Len(AsciiLow) }
         \cup { SubSeq(AsciiHigh, i, i) : i \in 1..Len(AsciiHigh) } |->
     IF \E i \in 1..Len(AsciiLow) : SubSeq(AsciiLow, i, i) = c
     THEN 31 + (CHOOSE i \in 1..Len(AsciiLow) : SubSeq(AsciiLow, i, i) = c)
     ELSE 96 + (CHOOSE i \in 1..Len(AsciiHigh) : SubSeq(AsciiHigh, i, i) = c)]

Ord(c) == OrdTable[c]

\* A string literal as the sequence of its code points.
Chars(str) == [i \in 1..Len(str) |-> Ord(SubSeq(str, i, i))]

\* Concatenation of the texts ts[lo..hi], by halves.
RECURSIVE FlattenRange(_, _, _)
FlattenRange(ts, lo, hi) ==
  IF lo > hi THEN <<>>
  ELSE IF lo = hi THEN ts[lo]
  ELSE FlattenRange(ts, lo, (lo + hi) \div 2) \o FlattenRange(ts, (lo + hi) \div 2 + 1, hi)

\* Concatenation of a sequence of texts.
Flatten(ts) == FlattenRange(ts, 1, Len(ts))

\* strings.Join(ts, sep)
Join(ts, sep) == Flatten([i \in 1..Len(ts) |-> IF i = 1 THEN ts[i] ELSE sep \o ts[i]])

\* unicode.IsSpace on the Latin-1 range, as used by strings.TrimSpace.
IsSpace(c) == c \in {9, 10, 11, 12, 13, 32, 133, 160}

\* The class \s of Go's regexp package: [\t\n\f\r ].
IsReSpace(c) == c \in {9, 10, 12, 13, 32}

IsDigit(c) == c \in 48..57

IsOctDigit(c) == c \in 48..55

IsHexDigit(c) == c \in (48..57) \cup (65..70) \cup (97..102)

\* unicode.IsUpper / unicode.ToUpper / unicode.ToLower on ASCII letters.
IsUpper(c) == c \in 65..90

ToUpper(c) == IF c \in 97..122 THEN c - 32 ELSE c

ToLower(c) == IF c \in 65..90 THEN c + 32 ELSE c

\* The first index j >= i of s at which P fails, Len(s)+1 when there is none.
Scan(s, i, P(_)) ==
  CHOOSE j \in i..(Len(s) + 1) :
    /\ j = Len(s) + 1 \/ ~P(s[j])
    /\ \A k \in i..(j - 1) : P(s[k])

\* The last index j <= i of s at which P fails, 0 when there is none.
ScanBack(s, i, P(_)) ==
  CHOOSE j \in 0..i :
    /\ j = 0 \/ ~P(s[j])
    /\ \A k \in (j + 1)..i : P(s[k])

\* strings.TrimSpace
TrimSpace(s) ==
  LET b == Scan(s, 1, IsSpace)
      e == ScanBack(s, Len(s), IsSpace)
  IN  IF b > e THEN <<>> ELSE SubSeq(s, b, e)

\* strings.Index from position i: the first j >= i with s[j] = c, 0 if none.
IndexFrom(s, c, i) ==
  LET NotC(x) == x # c
      j == Scan(s, i, NotC)
  IN  IF j > Len(s) THEN 0 ELSE j

\* The last index j <= i with s[j] = c, 0 if none.
LastIndexTo(s, c, i) ==
  LET NotC(x) == x # c
  IN  ScanBack(s, i, NotC)

\* The pieces of s[lo..hi] between the separators c, by halves: the text is
\* cut at the separator nearest to its middle.
RECURSIVE SplitRange(_, _, _, _)
SplitRange(s, c, lo, hi) ==
  LET mid == (lo + hi) \div 2
      after == IndexFrom(s, c, mid)
      before == LastIndexTo(s, c, mid)
      j == IF lo <= mid /\ after # 0 /\ after <= hi THEN after
           ELSE IF before >= lo /\ before <= hi THEN before
           ELSE 0
  IN  IF lo > hi \/ j = 0 THEN << SubSeq(s, lo, hi) >>
      ELSE SplitRange(s, c, lo, j - 1) \o SplitRange(s, c, j + 1, hi)

\* strings.Split(s, c) for a one-character separator.
Split(s, c) == SplitRange(s, c, 1, Len(s))

\* strings.SplitN(s, c, 2)
SplitN2(s, c) ==
  LET j == IndexFrom(s, c, 1)
  IN  IF j = 0 THEN << s >>
      ELSE << SubSeq(s, 1, j - 1), SubSeq(s, j + 1, Len(s)) >>

\* strings.HasPrefix
HasPrefix(s, p) == Len(s) >= Len(p) /\ SubSeq(s, 1, Len(p)) = p

\* strings.TrimPrefix
TrimPrefix(s, p) == IF HasPrefix(s, p) THEN SubSeq(s, Len(p) + 1, Len(s)) ELSE s

\* The value of a run of decimal digits (strconv.Atoi on [0-9]+).
RECURSIVE Atoi(_)
Atoi(w) ==
  IF w = <<>> THEN 0
  ELSE 10 * Atoi(SubSeq(w, 1, Len(w) - 1)) + (w[Len(w)] - 48)

\* strconv.Itoa for n >= 0 (the verb %v on an int).
RECURSIVE Itoa(_)
Itoa(n) == IF n < 10 THEN << 48 + n >> ELSE Itoa(n \div 10) \o << 48 + (n % 10) >>

(***************************************************************************)
(* camelCase and snakeCase                                                 *)
(***************************************************************************)

\* camelCase converts hello-world to HelloWorld: a dash is dropped and sets
\* the flag that capitalises the next character written, so a character is
\* capitalised when it is the first one or follows a dash.
camelCase(s) ==
  Flatten([i \in 1..Len(s) |->
             IF s[i] = 45 THEN <<>>
             ELSE IF i = 1 \/ s[i - 1] = 45 THEN << ToUpper(s[i]) >>
             ELSE << s[i] >>])

\* snakeCase converts HelloWorld to hello-world: every character is written,
\* so the buffer is empty only before the first one.
snakeCase(s) ==
  Flatten([i \in 1..Len(s) |->
             IF IsUpper(s[i])
             THEN (IF i > 1 THEN << 45 >> ELSE <<>>) \o << ToLower(s[i]) >>
             ELSE << s[i] >>])

(***************************************************************************)
(* Errors and formatting verbs                                             *)
(***************************************************************************)

\* A Go error value: nil, or an error carrying its message text.
Nil == [nil |-> TRUE, text |-> <<>>]

Errorf(text) == [nil |-> FALSE, text |-> text]

\* One lower-case hexadecimal digit.
HexDigit(n) == IF n < 10 THEN 48 + n ELSE 87 + n

\* n written with exactly w lower-case hexadecimal digits (the verb %0wx).
RECURSIVE HexFixed(_, _)
HexFixed(n, w) ==
  IF w = 0 THEN <<>> ELSE HexFixed(n \div 16, w - 1) \o << HexDigit(n % 16) >>

\* The verb %02x: at least two hexadecimal digits.
RECURSIVE Hex02(_)
Hex02(n) == IF n < 256 THEN HexFixed(n, 2) ELSE Hex02(n \div 16) \o << HexDigit(n % 16) >>

\* unicode.IsPrint on ASCII, Latin-1 and the box-drawing block.
IsPrint(c) == c \in 32..126 \/ (c >= 161 /\ c # 173)

\* strconv.Quote of one character of a string; a negative number -b stands
\* for the raw byte b >= 128, which is no valid UTF-8 on its own.
QuoteRune(c) ==
  IF c = 34 THEN << 92, 34 >>
  ELSE IF c = 92 THEN << 92, 92 >>
  ELSE IF c < 0 THEN << 92, 120 >> \o HexFixed(-c, 2)
  ELSE IF IsPrint(c) THEN << c >>
  ELSE IF c = 7 THEN << 92, 97 >>
  ELSE IF c = 8 THEN << 92, 98 >>
  ELSE IF c = 12 THEN << 92, 102 >>
  ELSE IF c = 10 THEN << 92, 110 >>
  ELSE IF c = 13 THEN << 92, 114 >>
  ELSE IF c = 9 THEN << 92, 116 >>
  ELSE IF c = 11 THEN << 92, 118 >>
  ELSE IF c < 32 \/ c = 127 THEN << 92, 120 >> \o HexFixed(c, 2)
  ELSE IF c < 65536 THEN << 92, 117 >> \o HexFixed(c, 4)
  ELSE << 92, 85 >> \o HexFixed(c, 8)

\* strconv.Quote (the verb %q on a string).
Quote(s) == << 34 >> \o Flatten([i \in 1..Len(s) |-> QuoteRune(s[i])]) \o << 34 >>

(***************************************************************************)
(* Values                                                                  *)
(***************************************************************************)

\* lipgloss.TerminalColor: NoColor{}, Color(string), AdaptiveColor{Light,
\* Dark}, and any other implementation, known to Export by its RGBA() only.
NoColor == [t |-> "NoColor", light |-> <<>>, dark |-> <<>>, rgb |-> <<>>]

Color(s) == [t |-> "Color", light |-> s, dark |-> <<>>, rgb |-> <<>>]

AdaptiveColor(l, d) == [t |-> "AdaptiveColor", light |-> l, dark |-> d, rgb |-> <<>>]

OtherColor(r, g, b) == [t |-> "Other", light |-> <<>>, dark |-> <<>>, rgb |-> << r, g, b >>]

\* lipgloss.Border, the eight glyph strings in the order convert.go uses.
Border(t, b, l, r, tl, tr, br, bl) ==
  [Top |-> t, Bottom |-> b, Left |-> l, Right |-> r,
   TopLeft |-> tl, TopRight |-> tr, BottomRight |-> br, BottomLeft |-> bl]

BorderFields ==
  << "Top", "Bottom", "Left", "Right", "TopLeft", "TopRight", "BottomRight", "BottomLeft" >>

NoBorder == Border(<<>>, <<>>, <<>>, <<>>, <<>>, <<>>, <<>>, <<>>)

NormalBorder ==
  Border(<< 9472 >>, << 9472 >>, << 9474 >>, << 9474 >>,
         << 9484 >>, << 9488 >>, << 9496 >>, << 9492 >>)

RoundedBorder ==
  Border(<< 9472 >>, << 9472 >>, << 9474 >>, << 9474 >>,
         << 9581 >>, << 9582 >>, << 9583 >>, << 9584 >>)

ThickBorder ==
  Border(<< 9473 >>, << 9473 >>, << 9475 >>, << 9475 >>,
         << 9487 >>, << 9491 >>, << 9499 >>, << 9495 >>)

DoubleBorder ==
  Border(<< 9552 >>, << 9552 >>, << 9553 >>, << 9553 >>,
         << 9556 >>, << 9559 >>, << 9565 >>, << 9562 >>)

HiddenBorder ==
  Border(<< 32 >>, << 32 >>, << 32 >>, << 32 >>, << 32 >>, << 32 >>, << 32 >>, << 32 >>)

\* lipgloss.Position is a float64; the model keeps it in hundredths, so
\* Top = Left = 0, Center = 50 and Bottom = Right = 100.
PosTop == 0

PosCenter == 50

PosBottom == 100

(***************************************************************************)
(* Value parsers                                                           *)
(***************************************************************************)

\* The shape ^\s*(TOKEN)(?:\s+|$) shared by the one-word expressions, matched
\* against s[i..]: TOKEN holds no white space and must be followed by white
\* space or the end, so it is the maximal run of non-space characters after
\* the leading white space; all the white space after it is consumed.
ReWord(s, i) ==
  Let(Scan(s, i, IsReSpace), LAMBDA b :
  Let(Scan(s, b, LAMBDA c : ~IsReSpace(c)), LAMBDA e :
    [word |-> SubSeq(s, b, e - 1), len |-> Scan(s, e, IsReSpace) - i]))

AllDigits(w) == \A k \in 1..Len(w) : IsDigit(w[k])

\* The number of digits of w after its leading zeros.
Significant(w) == Len(w) + 1 - Scan(w, 1, LAMBDA c : c = 48)

\* reInt = ^\s*([0-9]+)(?:\s+|$)
reInt(w) == w # <<>> /\ AllDigits(w)

\* inttype.parse; strconv.Atoi fails beyond 64 bits.
inttype_parse(in, first) ==
  Let(ReWord(in, first + 1), LAMBDA m :
    IF ~reInt(m.word)
    THEN [pos |-> first, val |-> 0, err |-> Errorf(Chars("no value found"))]
    ELSE IF Significant(m.word) > 19
    THEN [pos |-> first + m.len, val |-> 0,
          err |-> Errorf(Chars("strconv.Atoi: parsing ") \o Quote(m.word)
                         \o Chars(": value out of range"))]
    ELSE [pos |-> first + m.len, val |-> Atoi(m.word), err |-> Nil])

TrueWords == { Chars("1"), Chars("t"), Chars("T"), Chars("TRUE"), Chars("true"), Chars("True") }

FalseWords == { Chars("0"), Chars("f"), Chars("F"), Chars("FALSE"), Chars("false"), Chars("False") }

\* reBool = ^\s*(1|[tT]|TRUE|[tT]rue|0|[fF]|FALSE|[fF]alse)(?:\s+|$)
reBool(w) == w \in TrueWords \cup FalseWords

\* booltype.parse; strconv.ParseBool accepts every word of reBool.
booltype_parse(in, first) ==
  Let(ReWord(in, first + 1), LAMBDA m :
    IF ~reBool(m.word)
    THEN [pos |-> first, val |-> FALSE, err |-> Errorf(Chars("no value found"))]
    ELSE [pos |-> first + m.len, val |-> (m.word \in TrueWords), err |-> Nil])

PosWords ==
  { Chars("top"), Chars("bottom"), Chars("center"), Chars("left"), Chars("right"),
    Chars("1"), Chars("1.0"), Chars("0.5"), Chars(".5"), Chars("0"), Chars("0.0"),
    Chars(".0") }

\* rePos = ^\s*(top|bottom|center|left|right|1|1\.0|0\.5|\.5|0|0\.0|\.0)(?:\s+|$)
rePos(w) == w \in PosWords

\* The literals digits[.digits] with at most two decimals, which strconv.
\* ParseFloat reads exactly; the value is in hundredths.
IsDecimal(w) ==
  LET d == IndexFrom(w, 46, 1)
      ip == IF d = 0 THEN w ELSE SubSeq(w, 1, d - 1)
      fp == IF d = 0 THEN <<>> ELSE SubSeq(w, d + 1, Len(w))
  IN  /\ AllDigits(ip) /\ AllDigits(fp)
      /\ Len(ip) + Len(fp) > 0
      /\ Len(fp) <= 2

ParseFloat(w) ==
  LET d == IndexFrom(w, 46, 1)
      ip == IF d = 0 THEN w ELSE SubSeq(w, 1, d - 1)
      fp == IF d = 0 THEN <<>> ELSE SubSeq(w, d + 1, Len(w))
  IN  100 * Atoi(ip)
      + (IF Len(fp) = 1 THEN 10 * Atoi(fp) ELSE Atoi(fp))

\* postype.parse
postype_parse(in, first) ==
  Let(ReWord(in, first + 1), LAMBDA m :
    IF ~rePos(m.word)
    THEN [pos |-> first, val |-> 0, err |-> Errorf(Chars("no value found"))]
    ELSE [pos |-> first + m.len,
          val |-> IF m.word \in { Chars("top"), Chars("left") } THEN PosTop
                  ELSE IF m.word \in { Chars("bottom"), Chars("right") } THEN PosBottom
                  ELSE IF m.word = Chars("center") THEN PosCenter
                  ELSE IF IsDecimal(m.word) THEN ParseFloat(m.word)
                  ELSE 0,
          err |-> IF m.word \in { Chars("top"), Chars("left"), Chars("bottom"),
                                  Chars("right"), Chars("center") }
                     \/ IsDecimal(m.word)
                  THEN Nil
                  ELSE Errorf(Chars("strconv.ParseFloat: parsing ") \o Quote(m.word)
                              \o Chars(": invalid syntax"))])

\* The verb %v on a float64 holding a number of hundredths (the shortest
\* decimal that reads back: 0, 0.5, 0.25, 1).
FormatFloat(h) ==
  Itoa(h \div 100)
  \o (IF h % 100 = 0 THEN <<>>
      ELSE IF h % 10 = 0 THEN << 46 >> \o Itoa((h % 100) \div 10)
      ELSE << 46, 48 + ((h % 100) \div 10), 48 + (h % 10) >>)

\* The token of reColor: \d+ | #[0-9a-fA-F]{3} | #[0-9a-fA-F]{6}
IsColorToken(w) ==
  \/ w # <<>> /\ AllDigits(w)
  \/ /\ Len(w) \in {4, 7}
     /\ w[1] = 35
     /\ \A k \in 2..Len(w) : IsHexDigit(w[k])

\* reColor.MatchString(s), reColor = ^\s*(\d+|#[0-9a-fA-F]{3}|#[0-9a-fA-F]{6})(?:\s+|$)
\* The expression is anchored at the start only: text may follow the token.
reColor(s) == IsColorToken(ReWord(s, 1).word)

\* reColorOrNone = ^\s*(none|\d+|#[0-9a-fA-F]{3}|#[0-9a-fA-F]{6})(?:\s+|$)
reColorOrNone(w) == w = Chars("none") \/ IsColorToken(w)

\* reAdaptive = ^\s*(?:adaptive\s*\(([^,]*),([^,]*)\))(?:\s+|$) against s[i..].
\* The first group runs to the first comma; the second holds no comma and is
\* the longest text that ends before a ")" followed by white space or the end.
reAdaptive(s, i) ==
  LET b == Scan(s, i, IsReSpace)
      kw == Chars("adaptive")
      p == Scan(s, b + Len(kw), IsReSpace)
      c1 == IndexFrom(s, 44, p + 1)
      c2 == IF c1 = 0 THEN 0 ELSE IndexFrom(s, 44, c1 + 1)
      lim == IF c2 = 0 THEN Len(s) ELSE c2 - 1
      Closers == IF c1 = 0 THEN {}
                 ELSE { q \in (c1 + 1)..lim :
                          s[q] = 41 /\ (q = Len(s) \/ IsReSpace(s[q + 1])) }
      q == CHOOSE x \in Closers : \A y \in Closers : y <= x
  IN  IF /\ b + Len(kw) - 1 <= Len(s)
         /\ SubSeq(s, b, b + Len(kw) - 1) = kw
         /\ p <= Len(s) /\ s[p] = 40
         /\ Closers # {}
      THEN [ok |-> TRUE, g1 |-> SubSeq(s, p + 1, c1 - 1), g2 |-> SubSeq(s, c1 + 1, q - 1),
            len |-> Scan(s, q + 1, IsReSpace) - i]
      ELSE [ok |-> FALSE, g1 |-> <<>>, g2 |-> <<>>, len |-> 0]

\* colortype.parse
colortype_parse(in, first) ==
  Let(reAdaptive(in, first + 1), LAMBDA r :
    IF r.ok
    THEN Let(TrimSpace(r.g1), LAMBDA firstValue :
         Let(TrimSpace(r.g2), LAMBDA secondValue :
           IF ~reColor(firstValue)
           THEN [pos |-> first + r.len, val |-> NoColor,
                 err |-> Errorf(Chars("color not recognized: ") \o Quote(firstValue))]
           ELSE IF ~reColor(secondValue)
           THEN [pos |-> first + r.len, val |-> NoColor,
                 err |-> Errorf(Chars("color not recognized: ") \o Quote(secondValue))]
           ELSE [pos |-> first + r.len, val |-> AdaptiveColor(firstValue, secondValue),
                 err |-> Nil]))
    ELSE Let(ReWord(in, first + 1), LAMBDA m :
           IF ~reColorOrNone(m.word)
           THEN [pos |-> first, val |-> NoColor, err |-> Errorf(Chars("color not recognized"))]
           ELSE IF m.word = Chars("none")
           THEN [pos |-> first + m.len, val |-> NoColor, err |-> Nil]
           ELSE IF ~reColor(m.word)
           THEN [pos |-> first + m.len, val |-> NoColor,
                 err |-> Errorf(Chars("color not recognized: ") \o Quote(m.word))]
           ELSE [pos |-> first + m.len, val |-> Color(m.word), err |-> Nil]))

\* The length of the escape sequence of reBorderStr that starts at the
\* backslash s[i], 0 when none does:
\*   \\[\\"] | \\[0-7]{3} | \\x[0-9a-fA-F]{2} | \\u[0-9]{4} | \\U[0-9]{8}
EscapeLen(s, i) ==
  LET Run(n, P(_)) == i + 1 + n <= Len(s) /\ \A k \in (i + 2)..(i + 1 + n) : P(s[k])
  IN  IF i + 1 > Len(s) THEN 0
      ELSE IF s[i + 1] \in {92, 34} THEN 2
      ELSE IF IsOctDigit(s[i + 1])
      THEN (IF Run(2, IsOctDigit) THEN 4 ELSE 0)
      ELSE IF s[i + 1] = 120 THEN (IF Run(2, IsHexDigit) THEN 4 ELSE 0)
      ELSE IF s[i + 1] = 117 THEN (IF Run(4, IsDigit) THEN 6 ELSE 0)
      ELSE IF s[i + 1] = 85 THEN (IF Run(8, IsDigit) THEN 10 ELSE 0)
      ELSE 0

\* reBorderStr = "(?:\\[\\"]|\\[0-7]{3}|\\x[0-9a-fA-F]{2}|\\u[0-9]{4}|\\U[0-9]{8}|[^\\"])*"
\* from inside the quotes at s[i]: the index after the closing quote, 0 when
\* the text does not match. A backslash can only start an escape and a quote
\* can only close the string, so the match is decided character by character.
RECURSIVE reBorderStrFrom(_, _)
reBorderStrFrom(s, i) ==
  IF i > Len(s) THEN 0
  ELSE IF s[i] = 34 THEN i + 1
  ELSE IF s[i] # 92 THEN reBorderStrFrom(s, i + 1)
  ELSE IF EscapeLen(s, i) = 0 THEN 0
  ELSE reBorderStrFrom(s, i + EscapeLen(s, i))

reBorderStr(s, i) == IF i <= Len(s) /\ s[i] = 34 THEN reBorderStrFrom(s, i + 1) ELSE 0

\* The eight fields \s*(STR)\s* of reBorder separated by commas, from s[i]:
\* the quoted fields found so far and the index after the last one.
RECURSIVE reBorderFields(_, _, _)
reBorderFields(s, i, n) ==
  Let(Scan(s, i, IsReSpace), LAMBDA b :
  Let(reBorderStr(s, b), LAMBDA e :
  Let(Scan(s, e, IsReSpace), LAMBDA a :
    IF e = 0 THEN [ok |-> FALSE, g |-> <<>>, next |-> 0]
    ELSE IF n = 1 THEN [ok |-> TRUE, g |-> << SubSeq(s, b, e - 1) >>, next |-> a]
    ELSE IF a > Len(s) \/ s[a] # 44 THEN [ok |-> FALSE, g |-> <<>>, next |-> 0]
    ELSE Let(reBorderFields(s, a + 1, n - 1), LAMBDA rest :
           [ok |-> rest.ok, g |-> << SubSeq(s, b, e - 1) >> \o rest.g,
            next |-> rest.next]))))

\* reBorder = ^\s*(?:border\s*\(\s*(STR)\s*,\s*(STR) ... ,\s*(STR)\s*\))(?:\s+|$)
reBorder(s, i) ==
  Let(Scan(s, i, IsReSpace), LAMBDA b :
  Let(Scan(s, b + Len("border"), IsReSpace), LAMBDA p :
    IF /\ b + Len("border") - 1 <= Len(s)
       /\ SubSeq(s, b, b + Len("border") - 1) = Chars("border")
       /\ p <= Len(s) /\ s[p] = 40
    THEN Let(reBorderFields(s, p + 1, Len(BorderFields)), LAMBDA f :
           IF /\ f.ok
              /\ f.next <= Len(s) /\ s[f.next] = 41
              /\ (f.next = Len(s) \/ IsReSpace(s[f.next + 1]))
           THEN [ok |-> TRUE, g |-> f.g, len |-> Scan(s, f.next + 1, IsReSpace) - i]
           ELSE [ok |-> FALSE, g |-> <<>>, len |-> 0])
    ELSE [ok |-> FALSE, g |-> <<>>, len |-> 0]))

HexVal(c) == IF c \in 48..57 THEN c - 48 ELSE IF c \in 65..70 THEN c - 55 ELSE c - 87

\* The number written by the digits s[i..j] in the given base.
RECURSIVE Digits(_, _, _, _)
Digits(s, i, j, base) ==
  IF j < i THEN 0 ELSE base * Digits(s, i, j - 1, base) + HexVal(s[j])

\* utf8.ValidRune
ValidRune(v) == (v >= 0 /\ v < 55296) \/ (v > 57343 /\ v <= 1114111)

\* strconv.UnquoteChar at the backslash s[i] of a double-quoted string: the
\* character denoted and the length of the escape, ok = FALSE on a syntax
\* error. \x and octal escapes denote a byte: a byte >= 128 is kept as -b.
UnquoteChar(s, i) ==
  LET c == IF i + 1 <= Len(s) THEN s[i + 1] ELSE 0
      Run(n, P(_)) == i + 1 + n <= Len(s) /\ \A k \in (i + 2)..(i + 1 + n) : P(s[k])
      Byte(v) == IF v < 128 THEN v ELSE -v
      Simple(v) == [ok |-> TRUE, c |-> v, len |-> 2]
      Bad == [ok |-> FALSE, c |-> 0, len |-> 0]
  IN  IF i + 1 > Len(s) THEN Bad
      ELSE IF c = 97 THEN Simple(7)
      ELSE IF c = 98 THEN Simple(8)
      ELSE IF c = 102 THEN Simple(12)
      ELSE IF c = 110 THEN Simple(10)
      ELSE IF c = 114 THEN Simple(13)
      ELSE IF c = 116 THEN Simple(9)
      ELSE IF c = 118 THEN Simple(11)
      ELSE IF c = 92 THEN Simple(92)
      ELSE IF c = 34 THEN Simple(34)
      ELSE IF c = 120
      THEN (IF Run(2, IsHexDigit)
            THEN [ok |-> TRUE, c |-> Byte(Digits(s, i + 2, i + 3, 16)), len |-> 4]
            ELSE Bad)
      ELSE IF c = 117
      THEN (IF Run(4, IsHexDigit) /\ ValidRune(Digits(s, i + 2, i + 5, 16))
            THEN [ok |-> TRUE, c |-> Digits(s, i + 2, i + 5, 16), len |-> 6]
            ELSE Bad)
      ELSE IF c = 85
      THEN (IF Run(8, IsHexDigit) /\ s[i + 2] = 48 /\ s[i + 3] = 48
               /\ ValidRune(Digits(s, i + 4, i + 9, 16))
            THEN [ok |-> TRUE, c |-> Digits(s, i + 4, i + 9, 16), len |-> 10]
            ELSE Bad)
      ELSE IF IsOctDigit(c)
      THEN (IF Run(2, IsOctDigit) /\ Digits(s, i + 1, i + 3, 8) <= 255
            THEN [ok |-> TRUE, c |-> Byte(Digits(s, i + 1, i + 3, 8)), len |-> 4]
            ELSE Bad)
      ELSE Bad

\* The characters s[i..j] of a double-quoted literal decoded, ok = FALSE on
\* a syntax error (a raw newline, a raw quote, a bad escape).
RECURSIVE UnquoteFrom(_, _, _)
UnquoteFrom(s, i, j) ==
  IF i > j THEN [ok |-> TRUE, s |-> <<>>]
  ELSE IF s[i] \in {10, 34} THEN [ok |-> FALSE, s |-> <<>>]
  ELSE Let(IF s[i] = 92 THEN UnquoteChar(s, i) ELSE [ok |-> TRUE, c |-> s[i], len |-> 1],
           LAMBDA u :
         IF ~u.ok \/ i + u.len - 1 > j THEN [ok |-> FALSE, s |-> <<>>]
         ELSE Let(UnquoteFrom(s, i + u.len, j), LAMBDA rest :
                [ok |-> rest.ok, s |-> IF rest.ok THEN << u.c >> \o rest.s ELSE <<>>]))

\* strconv.Unquote of a double-quoted literal.
Unquote(w) ==
  IF Len(w) < 2 \/ w[1] # 34 \/ w[Len(w)] # 34 THEN [ok |-> FALSE, s |-> <<>>]
  ELSE UnquoteFrom(w, 2, Len(w) - 1)

\* The words of reSpecialBorder and the borders they name.
SpecialBorders ==
  { << Chars("rounded"), RoundedBorder >>, << Chars("normal"), NormalBorder >>,
    << Chars("thick"), ThickBorder >>, << Chars("hidden"), HiddenBorder >>,
    << Chars("double"), DoubleBorder >> }

\* reSpecialBorder = ^\s*(rounded|normal|thick|hidden|double)(?:\s+|$)
reSpecialBorder(w) == \E sb \in SpecialBorders : sb[1] = w

\* bordertype.parse
bordertype_parse(in, first) ==
  Let(ReWord(in, first + 1), LAMBDA m :
    IF reSpecialBorder(m.word)
    THEN [pos |-> first + m.len,
          val |-> (CHOOSE sb \in SpecialBorders : sb[1] = m.word)[2], err |-> Nil]
    ELSE Let(reBorder(in, first + 1), LAMBDA r :
      IF ~r.ok
      THEN [pos |-> first, val |-> NoBorder,
            err |-> Errorf(Chars("no valid border value found"))]
      ELSE Let([i \in 1..Len(r.g) |-> Unquote(r.g[i])], LAMBDA u :
        IF \E i \in 1..Len(u) : ~u[i].ok
        THEN [pos |-> first + r.len, val |-> NoBorder,
              err |-> Errorf(Chars("invalid syntax"))]
        ELSE [pos |-> first + r.len,
              val |-> Border(u[1].s, u[2].s, u[3].s, u[4].s,
                             u[5].s, u[6].s, u[7].s, u[8].s),
              err |-> Nil])))

(***************************************************************************)
(* lipgloss.Style                                                          *)
(*                                                                         *)
(* The style is the library's: convert.go reaches it only by reflection on *)
(* its method set.  The method set below is the one the tests of the       *)
(* package pin down: TestExport lists the name of every getter.            *)
(***************************************************************************)

BoolKeys ==
  { "Bold", "Italic", "Underline", "Strikethrough", "Reverse", "Blink", "Faint",
    "ColorWhitespace", "Inline", "UnderlineSpaces", "StrikethroughSpaces",
    "BorderTop", "BorderRight", "BorderBottom", "BorderLeft" }

ColorKeys ==
  { "Foreground", "Background", "MarginBackground", "BorderTopForeground",
    "BorderRightForeground", "BorderBottomForeground", "BorderLeftForeground",
    "BorderTopBackground", "BorderRightBackground", "BorderBottomBackground",
    "BorderLeftBackground" }

IntKeys ==
  { "Width", "Height", "MaxWidth", "MaxHeight", "PaddingTop", "PaddingRight",
    "PaddingBottom", "PaddingLeft", "MarginTop", "MarginRight", "MarginBottom",
    "MarginLeft" }

PositionKeys == { "Align" }

BorderKeys == { "BorderStyle" }

\* The rules a style can hold, each named after the method that sets it.
Keys == BoolKeys \cup ColorKeys \cup IntKeys \cup PositionKeys \cup BorderKeys

\* The Go type of a rule's value.
KeyType(k) ==
  IF k \in BoolKeys THEN "bool"
  ELSE IF k \in ColorKeys THEN "TerminalColor"
  ELSE IF k \in IntKeys THEN "int"
  ELSE IF k \in PositionKeys THEN "Position"
  ELSE "Border"

\* What a getter returns for a rule that is not set.
ZeroOf(type) ==
  IF type = "bool" THEN [set |-> FALSE, v |-> FALSE]
  ELSE IF type = "TerminalColor" THEN [set |-> FALSE, v |-> NoColor]
  ELSE IF type = "Border" THEN [set |-> FALSE, v |-> NoBorder]
  ELSE [set |-> FALSE, v |-> 0]

\* lipgloss.NewStyle(): no rule is set.
NewStyle == [k \in Keys |-> ZeroOf(KeyType(k))]

\* Style.set(key, value)
SetRule(s, k, v) == [s EXCEPT ![k] = [set |-> TRUE, v |-> v]]

\* Style.unset(key)
UnsetRule(s, k) == [s EXCEPT ![k] = ZeroOf(KeyType(k))]

RECURSIVE SetRules(_, _, _)
SetRules(s, ks, vs) ==
  IF ks = <<>> THEN s ELSE SetRules(SetRule(s, Head(ks), Head(vs)), Tail(ks), Tail(vs))

RECURSIVE UnsetRules(_, _)
UnsetRules(s, ks) == IF ks = <<>> THEN s ELSE UnsetRules(UnsetRule(s, Head(ks)), Tail(ks))

\* A method of the style as reflect sees it: its name, the types of its
\* parameters after the receiver, whether the last one is variadic, and the
\* types of its results.
Method(name, in, variadic, res) ==
  [name |-> name, in |-> in, variadic |-> variadic, res |-> res]

\* The exported methods of lipgloss.Style, sorted by name as reflect's
\* Type.Method(i) enumerates them.
Methods ==
  <<
    Method("Align", << "Position" >>, FALSE, << "Style" >>),
    Method("Background", << "TerminalColor" >>, FALSE, << "Style" >>),
    Method("Blink", << "bool" >>, FALSE, << "Style" >>),
    Method("Bold", << "bool" >>, FALSE, << "Style" >>),
    Method("Border", << "Border", "[]bool" >>, TRUE, << "Style" >>),
    Method("BorderBackground", << "[]TerminalColor" >>, TRUE, << "Style" >>),
    Method("BorderBottom", << "bool" >>, FALSE, << "Style" >>),
    Method("BorderBottomBackground", << "TerminalColor" >>, FALSE, << "Style" >>),
    Method("BorderBottomForeground", << "TerminalColor" >>, FALSE, << "Style" >>),
    Method("BorderForeground", << "[]TerminalColor" >>, TRUE, << "Style" >>),
    Method("BorderLeft", << "bool" >>, FALSE, << "Style" >>),
    Method("BorderLeftBackground", << "TerminalColor" >>, FALSE, << "Style" >>),
    Method("BorderLeftForeground", << "TerminalColor" >>, FALSE, << "Style" >>),
    Method("BorderRight", << "bool" >>, FALSE, << "Style" >>),
    Method("BorderRightBackground", << "TerminalColor" >>, FALSE, << "Style" >>),
    Method("BorderRightForeground", << "TerminalColor" >>, FALSE, << "Style" >>),
    Method("BorderStyle", << "Border" >>, FALSE, << "Style" >>),
    Method("BorderTop", << "bool" >>, FALSE, << "Style" >>),
    Method("BorderTopBackground", << "TerminalColor" >>, FALSE, << "Style" >>),
    Method("BorderTopForeground", << "TerminalColor" >>, FALSE, << "Style" >>),
    Method("ColorWhitespace", << "bool" >>, FALSE, << "Style" >>),
    Method("Copy", <<>>, FALSE, << "Style" >>),
    Method("Faint", << "bool" >>, FALSE, << "Style" >>),
    Method("Foreground", << "TerminalColor" >>, FALSE, << "Style" >>),
    Method("GetAlign", <<>>, FALSE, << "Position" >>),
    Method("GetBackground", <<>>, FALSE, << "TerminalColor" >>),
    Method("GetBlink", <<>>, FALSE, << "bool" >>),
    Method("GetBold", <<>>, FALSE, << "bool" >>),
    Method("GetBorder", <<>>, FALSE, << "Border", "bool", "bool", "bool", "bool" >>),
    Method("GetBorderBottom", <<>>, FALSE, << "bool" >>),
    Method("GetBorderBottomBackground", <<>>, FALSE, << "TerminalColor" >>),
    Method("GetBorderBottomForeground", <<>>, FALSE, << "TerminalColor" >>),
    Method("GetBorderBottomSize", <<>>, FALSE, << "int" >>),
    Method("GetBorderLeft", <<>>, FALSE, << "bool" >>),
    Method("GetBorderLeftBackground", <<>>, FALSE, << "TerminalColor" >>),
    Method("GetBorderLeftForeground", <<>>, FALSE, << "TerminalColor" >>),
    Method("GetBorderLeftSize", <<>>, FALSE, << "int" >>),
    Method("GetBorderRight", <<>>, FALSE, << "bool" >>),
    Method("GetBorderRightBackground", <<>>, FALSE, << "TerminalColor" >>),
    Method("GetBorderRightForeground", <<>>, FALSE, << "TerminalColor" >>),
    Method("GetBorderRightSize", <<>>, FALSE, << "int" >>),
    Method("GetBorderStyle", <<>>, FALSE, << "Border" >>),
    Method("GetBorderTop", <<>>, FALSE, << "bool" >>),
    Method("GetBorderTopBackground", <<>>, FALSE, << "TerminalColor" >>),
    Method("GetBorderTopForeground", <<>>, FALSE, << "TerminalColor" >>),
    Method("GetBorderTopWidth", <<>>, FALSE, << "int" >>),
    Method("GetColorWhitespace", <<>>, FALSE, << "bool" >>),
    Method("GetFaint", <<>>, FALSE, << "bool" >>),
    Method("GetForeground", <<>>, FALSE, << "TerminalColor" >>),
    Method("GetFrameSize", <<>>, FALSE, << "int", "int" >>),
    Method("GetHeight", <<>>, FALSE, << "int" >>),
    Method("GetHorizontalBorderSize", <<>>, FALSE, << "int" >>),
    Method("GetHorizontalFrameSize", <<>>, FALSE, << "int" >>),
    Method("GetHorizontalMargins", <<>>, FALSE, << "int" >>),
    Method("GetHorizontalPadding", <<>>, FALSE, << "int" >>),
    Method("GetInline", <<>>, FALSE, << "bool" >>),
    Method("GetItalic", <<>>, FALSE, << "bool" >>),
    Method("GetMargin", <<>>, FALSE, << "int", "int", "int", "int" >>),
    Method("GetMarginBottom", <<>>, FALSE, << "int" >>),
    Method("GetMarginLeft", <<>>, FALSE, << "int" >>),
    Method("GetMarginRight", <<>>, FALSE, << "int" >>),
    Method("GetMarginTop", <<>>, FALSE, << "int" >>),
    Method("GetMaxHeight", <<>>, FALSE, << "int" >>),
    Method("GetMaxWidth", <<>>, FALSE, << "int" >>),
    Method("GetPadding", <<>>, FALSE, << "int", "int", "int", "int" >>),
    Method("GetPaddingBottom", <<>>, FALSE, << "int" >>),
    Method("GetPaddingLeft", <<>>, FALSE, << "int" >>),
    Method("GetPaddingRight", <<>>, FALSE, << "int" >>),
    Method("GetPaddingTop", <<>>, FALSE, << "int" >>),
    Method("GetReverse", <<>>, FALSE, << "bool" >>),
    Method("GetStrikethrough", <<>>, FALSE, << "bool" >>),
    Method("GetStrikethroughSpaces", <<>>, FALSE, << "bool" >>),
    Method("GetUnderline", <<>>, FALSE, << "bool" >>),
    Method("GetUnderlineSpaces", <<>>, FALSE, << "bool" >>),
    Method("GetVerticalBorderSize", <<>>, FALSE, << "int" >>),
    Method("GetVerticalFrameSize", <<>>, FALSE, << "int" >>),
    Method("GetVerticalMargins", <<>>, FALSE, << "int" >>),
    Method("GetVerticalPadding", <<>>, FALSE, << "int" >>),
    Method("GetWidth", <<>>, FALSE, << "int" >>),
    Method("Height", << "int" >>, FALSE, << "Style" >>),
    Method("Inherit", << "Style" >>, FALSE, << "Style" >>),
    Method("Inline", << "bool" >>, FALSE, << "Style" >>),
    Method("Italic", << "bool" >>, FALSE, << "Style" >>),
    Method("Margin", << "[]int" >>, TRUE, << "Style" >>),
    Method("MarginBackground", << "TerminalColor" >>, FALSE, << "Style" >>),
    Method("MarginBottom", << "int" >>, FALSE, << "Style" >>),
    Method("MarginLeft", << "int" >>, FALSE, << "Style" >>),
    Method("MarginRight", << "int" >>, FALSE, << "Style" >>),
    Method("MarginTop", << "int" >>, FALSE, << "Style" >>),
    Method("MaxHeight", << "int" >>, FALSE, << "Style" >>),
    Method("MaxWidth", << "int" >>, FALSE, << "Style" >>),
    Method("Padding", << "[]int" >>, TRUE, << "Style" >>),
    Method("PaddingBottom", << "int" >>, FALSE, << "Style" >>),
    Method("PaddingLeft", << "int" >>, FALSE, << "Style" >>),
    Method("PaddingRight", << "int" >>, FALSE, << "Style" >>),
    Method("PaddingTop", << "int" >>, FALSE, << "Style" >>),
    Method("Render", << "string" >>, FALSE, << "string" >>),
    Method("Reverse", << "bool" >>, FALSE, << "Style" >>),
    Method("SetString", << "string" >>, FALSE, << "Style" >>),
    Method("Strikethrough", << "bool" >>, FALSE, << "Style" >>),
    Method("StrikethroughSpaces", << "bool" >>, FALSE, << "Style" >>),
    Method("String", <<>>, FALSE, << "string" >>),
    Method("Underline", << "bool" >>, FALSE, << "Style" >>),
    Method("UnderlineSpaces", << "bool" >>, FALSE, << "Style" >>),
    Method("UnsetAlign", <<>>, FALSE, << "Style" >>),
    Method("UnsetBackground", <<>>, FALSE, << "Style" >>),
    Method("UnsetBlink", <<>>, FALSE, << "Style" >>),
    Method("UnsetBold", <<>>, FALSE, << "Style" >>),
    Method("UnsetBorderBackground", <<>>, FALSE, << "Style" >>),
    Method("UnsetBorderBottom", <<>>, FALSE, << "Style" >>),
    Method("UnsetBorderBottomBackground", <<>>, FALSE, << "Style" >>),
    Method("UnsetBorderBottomForeground", <<>>, FALSE, << "Style" >>),
    Method("UnsetBorderForeground", <<>>, FALSE, << "Style" >>),
    Method("UnsetBorderLeft", <<>>, FALSE, << "Style" >>),
    Method("UnsetBorderLeftBackground", <<>>, FALSE, << "Style" >>),
    Method("UnsetBorderLeftForeground", <<>>, FALSE, << "Style" >>),
    Method("UnsetBorderRight", <<>>, FALSE, << "Style" >>),
    Method("UnsetBorderRightBackground", <<>>, FALSE, << "Style" >>),
    Method("UnsetBorderRightForeground", <<>>, FALSE, << "Style" >>),
    Method("UnsetBorderStyle", <<>>, FALSE, << "Style" >>),
    Method("UnsetBorderTop", <<>>, FALSE, << "Style" >>),
    Method("UnsetBorderTopBackgroundColor", <<>>, FALSE, << "Style" >>),
    Method("UnsetBorderTopForeground", <<>>, FALSE, << "Style" >>),
    Method("UnsetColorWhitespace", <<>>, FALSE, << "Style" >>),
    Method("UnsetFaint", <<>>, FALSE, << "Style" >>),
    Method("UnsetForeground", <<>>, FALSE, << "Style" >>),
    Method("UnsetHeight", <<>>, FALSE, << "Style" >>),
    Method("UnsetInline", <<>>, FALSE, << "Style" >>),
    Method("UnsetItalic", <<>>, FALSE, << "Style" >>),
    Method("UnsetMarginBackground", <<>>, FALSE, << "Style" >>),
    Method("UnsetMarginBottom", <<>>, FALSE, << "Style" >>),
    Method("UnsetMarginLeft", <<>>, FALSE, << "Style" >>),
    Method("UnsetMarginRight", <<>>, FALSE, << "Style" >>),
    Method("UnsetMarginTop", <<>>, FALSE, << "Style" >>),
    Method("UnsetMargins", <<>>, FALSE, << "Style" >>),
    Method("UnsetMaxHeight", <<>>, FALSE, << "Style" >>),
    Method("UnsetMaxWidth", <<>>, FALSE, << "Style" >>),
    Method("UnsetPadding", <<>>, FALSE, << "Style" >>),
    Method("UnsetPaddingBottom", <<>>, FALSE, << "Style" >>),
    Method("UnsetPaddingLeft", <<>>, FALSE, << "Style" >>),
    Method("UnsetPaddingRight", <<>>, FALSE, << "Style" >>),
    Method("UnsetPaddingTop", <<>>, FALSE, << "Style" >>),
    Method("UnsetReverse", <<>>, FALSE, << "Style" >>),
    Method("UnsetStrikethrough", <<>>, FALSE, << "Style" >>),
    Method("UnsetStrikethroughSpaces", <<>>, FALSE, << "Style" >>),
    Method("UnsetString", <<>>, FALSE, << "Style" >>),
    Method("UnsetUnderline", <<>>, FALSE, << "Style" >>),
    Method("UnsetUnderlineSpaces", <<>>, FALSE, << "Style" >>),
    Method("UnsetWidth", <<>>, FALSE, << "Style" >>),
    Method("Width", << "int" >>, FALSE, << "Style" >>)
  >>

\* The names of the methods as texts.
MethodNames == [i \in 1..Len(Methods) |-> Chars(Methods[i].name)]

\* reflect's Type.MethodByName
HasMethod(name) == \E i \in 1..Len(Methods) : MethodNames[i] = name

MethodByName(name) == Methods[CHOOSE i \in 1..Len(Methods) : MethodNames[i] = name]

\* The sides of the shorthand setters, in the order top, right, bottom, left.
Sides == << "Top", "Right", "Bottom", "Left" >>

SideKeys(prefix, suffix) == [i \in 1..Len(Sides) |-> prefix \o Sides[i] \o suffix]

\* whichSidesInt, whichSidesBool, whichSidesColor: the values of the four
\* sides (top, right, bottom, left) from one to four arguments.
WhichSides(a) ==
  IF Len(a) = 1 THEN << a[1], a[1], a[1], a[1] >>
  ELSE IF Len(a) = 2 THEN << a[1], a[2], a[1], a[2] >>
  ELSE IF Len(a) = 3 THEN << a[1], a[2], a[3], a[2] >>
  ELSE a

WhichSidesOk(a) == Len(a) \in 1..4

\* The name of the rule a one-rule Unset method removes.
UnsetKey(name) ==
  IF name = "UnsetBorderTopBackgroundColor" THEN "BorderTopBackground"
  ELSE SubSeq(name, Len("Unset") + 1, Len(name))

\* Calling a method of the style that returns a style: a is the sequence of
\* the arguments after the receiver.
Call(name, s, a) ==
  IF name \in Keys THEN SetRule(s, name, a[1])
  ELSE IF name \in { "Padding", "Margin" }
  THEN (IF WhichSidesOk(a) THEN SetRules(s, SideKeys(name, ""), WhichSides(a)) ELSE s)
  ELSE IF name \in { "BorderForeground", "BorderBackground" }
  THEN (IF WhichSidesOk(a)
        THEN SetRules(s, SideKeys("Border", SubSeq(name, Len("Border") + 1, Len(name))),
                      WhichSides(a))
        ELSE s)
  ELSE IF name = "Border"
  THEN SetRules(SetRule(s, "BorderStyle", a[1]), SideKeys("Border", ""),
                IF WhichSidesOk(Tail(a)) THEN WhichSides(Tail(a))
                ELSE << TRUE, TRUE, TRUE, TRUE >>)
  ELSE IF name = "UnsetPadding" THEN UnsetRules(s, SideKeys("Padding", ""))
  ELSE IF name = "UnsetMargins" THEN UnsetRules(s, SideKeys("Margin", ""))
  ELSE IF name = "UnsetBorderForeground" THEN UnsetRules(s, SideKeys("Border", "Foreground"))
  ELSE IF name = "UnsetBorderBackground" THEN UnsetRules(s, SideKeys("Border", "Background"))
  ELSE IF name \in { "Copy", "UnsetString" } THEN s
  ELSE UnsetRule(s, UnsetKey(name))

\* runewidth.RuneWidth on the characters of the model (none is wide).
RuneWidth(c) == IF c < 32 \/ c \in 127..159 THEN 0 ELSE 1

\* Border.GetTopSize and the like: the widest character of three glyphs.
EdgeSize(b, fields) ==
  IF \E i \in 1..Len(fields) : \E k \in 1..Len(b[fields[i]]) : RuneWidth(b[fields[i]][k]) = 1
  THEN 1 ELSE 0

\* Calling a getter that takes no argument and returns one value.
Get(name, s) ==
  IF name = "GetBorderTopWidth"
  THEN (IF s["BorderTop"].v
        THEN EdgeSize(s["BorderStyle"].v, << "TopLeft", "Top", "TopRight" >>) ELSE 0)
  ELSE IF name = "GetBorderLeftSize"
  THEN (IF s["BorderLeft"].v
        THEN EdgeSize(s["BorderStyle"].v, << "TopLeft", "Left", "BottomLeft" >>) ELSE 0)
  ELSE IF name = "GetBorderBottomSize"
  THEN (IF s["BorderBottom"].v
        THEN EdgeSize(s["BorderStyle"].v, << "BottomLeft", "Bottom", "BottomRight" >>) ELSE 0)
  ELSE IF name = "GetBorderRightSize"
  THEN (IF s["BorderRight"].v
        THEN EdgeSize(s["BorderStyle"].v, << "TopRight", "Right", "BottomRight" >>) ELSE 0)
  ELSE s[SubSeq(name, Len("Get") + 1, Len(name))].v

(***************************************************************************)
(* Properties                                                              *)
(***************************************************************************)

\* reflect's Type.Elem on the slice type of a variadic parameter.
Elem(type) == SubSeq(type, Len("[]") + 1, Len(type))

\* The type of the method's i-th parameter as discoverProp classifies it.
ArgType(m, i) == IF m.variadic /\ i = Len(m.in) THEN Elem(m.in[i]) ELSE m.in[i]

\* The types discoverProp has a parser for, and the verb %s on the others.
ArgKinds == { "int", "bool", "Border", "Position", "TerminalColor" }

TypeString(type) == IF type = "Style" THEN Chars("lipgloss.Style") ELSE Chars(type)

\* The zero prop{} returned with an error.
NoProp(e) == [err |-> e, setFn |-> "", unsetFn |-> "", isVariadic |-> FALSE, args |-> <<>>]

\* discoverProp with the unsetter attached whether the method set has it or not.
discoverProp_buggyUnset(name) ==
  IF HasPrefix(name, Chars("set-"))
  THEN NoProp(Errorf(Chars("don't use 'set-xx: foo;'  use 'xx: foo;' instead")))
  ELSE IF HasPrefix(name, Chars("unset-"))
  THEN NoProp(Errorf(Chars("don't use 'unset-xx: foo;' use 'xx: unset;' instead")))
  ELSE IF HasPrefix(name, Chars("get-"))
  THEN NoProp(Errorf(Chars("property not supported: ") \o Quote(name)))
  ELSE Let(camelCase(name), LAMBDA goName :
    IF ~HasMethod(goName)
    THEN NoProp(Errorf(Chars("property not supported: ") \o Quote(name)))
    ELSE Let(MethodByName(goName), LAMBDA m :
    Let({ i \in 1..Len(m.in) : ArgType(m, i) \notin ArgKinds }, LAMBDA Bad :
      IF Len(m.res) # 1 \/ m.res[1] # "Style"
      THEN NoProp(Errorf(Chars("method ") \o Quote(goName)
                         \o Chars(" exists but does not return Style")))
      ELSE IF Bad # {}
      THEN NoProp(Errorf(Chars("lipgloss.Style has method ") \o goName
                         \o Chars(", but method uses unsupported argument type ")
                         \o TypeString(ArgType(m, CHOOSE i \in Bad : \A j \in Bad : i <= j))))
      ELSE [err |-> Nil,
            setFn |-> m.name,
            unsetFn |-> "Unset" \o m.name,
            isVariadic |-> m.variadic,
            args |-> [i \in 1..Len(m.in) |-> ArgType(m, i)]])))

\* discoverProp without the guard on the names that start with get-.
discoverProp_getNotGuarded(name) ==
  IF HasPrefix(name, Chars("set-"))
  THEN NoProp(Errorf(Chars("don't use 'set-xx: foo;'  use 'xx: foo;' instead")))
  ELSE IF HasPrefix(name, Chars("unset-"))
  THEN NoProp(Errorf(Chars("don't use 'unset-xx: foo;' use 'xx: unset;' instead")))
  ELSE Let(camelCase(name), LAMBDA goName :
    IF ~HasMethod(goName)
    THEN NoProp(Errorf(Chars("property not supported: ") \o Quote(name)))
    ELSE Let(MethodByName(goName), LAMBDA m :
    Let({ i \in 1..Len(m.in) : ArgType(m, i) \notin ArgKinds }, LAMBDA Bad :
      IF Len(m.res) # 1 \/ m.res[1] # "Style"
      THEN NoProp(Errorf(Chars("method ") \o Quote(goName)
                         \o Chars(" exists but does not return Style")))
      ELSE IF Bad # {}
      THEN NoProp(Errorf(Chars("lipgloss.Style has method ") \o goName
                         \o Chars(", but method uses unsupported argument type ")
                         \o TypeString(ArgType(m, CHOOSE i \in Bad : \A j \in Bad : i <= j))))
      ELSE [err |-> Nil,
            setFn |-> m.name,
            unsetFn |-> IF /\ HasMethod(Chars("Unset") \o goName)
                           /\ Len(m.res) = 1 /\ m.res[1] = "Style"
                        THEN "Unset" \o m.name ELSE "",
            isVariadic |-> m.variadic,
            args |-> [i \in 1..Len(m.in) |-> ArgType(m, i)]])))

\* discoverProp
discoverProp(name) ==
  IF HasPrefix(name, Chars("set-"))
  THEN NoProp(Errorf(Chars("don't use 'set-xx: foo;'  use 'xx: foo;' instead")))
  ELSE IF HasPrefix(name, Chars("unset-"))
  THEN NoProp(Errorf(Chars("don't use 'unset-xx: foo;' use 'xx: unset;' instead")))
  ELSE IF HasPrefix(name, Chars("get-"))
  THEN NoProp(Errorf(Chars("property not supported: ") \o Quote(name)))
  ELSE Let(camelCase(name), LAMBDA goName :
    IF ~HasMethod(goName)
    THEN NoProp(Errorf(Chars("property not supported: ") \o Quote(name)))
    ELSE Let(MethodByName(goName), LAMBDA m :
    Let({ i \in 1..Len(m.in) : ArgType(m, i) \notin ArgKinds }, LAMBDA Bad :
      IF Len(m.res) # 1 \/ m.res[1] # "Style"
      THEN NoProp(Errorf(Chars("method ") \o Quote(goName)
                         \o Chars(" exists but does not return Style")))
      ELSE IF Bad # {}
      THEN NoProp(Errorf(Chars("lipgloss.Style has method ") \o goName
                         \o Chars(", but method uses unsupported argument type ")
                         \o TypeString(ArgType(m, CHOOSE i \in Bad : \A j \in Bad : i <= j))))
      ELSE [err |-> Nil,
            setFn |-> m.name,
            unsetFn |-> IF /\ HasMethod(Chars("Unset") \o goName)
                           /\ Len(m.res) = 1 /\ m.res[1] = "Style"
                        THEN "Unset" \o m.name ELSE "",
            isVariadic |-> m.variadic,
            args |-> [i \in 1..Len(m.in) |-> ArgType(m, i)]])))

\* propRegistry is the empty map.
propRegistry == {}

\* getProp
getProp(name) == IF name \in propRegistry THEN NoProp(Nil) ELSE discoverProp(name)

\* argtype.parse of the parser discoverProp chose for the type.
parse(type, in, first) ==
  IF type = "int" THEN inttype_parse(in, first)
  ELSE IF type = "bool" THEN booltype_parse(in, first)
  ELSE IF type = "Border" THEN bordertype_parse(in, first)
  ELSE IF type = "Position" THEN postype_parse(in, first)
  ELSE colortype_parse(in, first)

\* prop.assign, the loop over p.args from its i-th pass on.
RECURSIVE parseArgs(_, _, _, _, _)
parseArgs(p, in, i, pos, vals) ==
  IF i > Len(p.args) THEN [pos |-> pos, vals |-> vals, err |-> Nil]
  ELSE IF pos >= Len(in)
  THEN (IF p.isVariadic /\ i = Len(p.args)
        THEN [pos |-> pos, vals |-> vals, err |-> Nil]
        ELSE [pos |-> pos, vals |-> vals, err |-> Errorf(Chars("missing value"))])
  ELSE Let(parse(p.args[i], in, pos), LAMBDA r :
         IF ~r.err.nil THEN [pos |-> r.pos, vals |-> vals, err |-> r.err]
         ELSE parseArgs(p, in, i + 1, r.pos, Append(vals, r.val)))

\* prop.assign, the loop that repeats the last parser of a variadic setter.
RECURSIVE parseVariadic(_, _, _, _)
parseVariadic(p, in, pos, vals) ==
  IF pos >= Len(in) THEN [pos |-> pos, vals |-> vals, err |-> Nil]
  ELSE Let(parse(p.args[Len(p.args)], in, pos), LAMBDA r :
         IF ~r.err.nil THEN [pos |-> r.pos, vals |-> vals, err |-> r.err]
         ELSE parseVariadic(p, in, r.pos, Append(vals, r.val)))

\* prop.assign, the reading of the arguments: both loops.
readArgs(p, in) ==
  Let(parseArgs(p, in, 1, 0, <<>>), LAMBDA one :
    IF one.err.nil /\ p.isVariadic THEN parseVariadic(p, in, one.pos, one.vals) ELSE one)

\* prop.assign without the test for text left after the arguments.
assign_noExcessCheck(p, s, args) ==
  IF args = Chars("unset")
  THEN (IF p.unsetFn = ""
        THEN [s |-> s, err |-> Errorf(Chars("no unset method defined"))]
        ELSE [s |-> Call(p.unsetFn, s, <<>>), err |-> Nil])
  ELSE Let(readArgs(p, args), LAMBDA r :
         IF ~r.err.nil THEN [s |-> s, err |-> r.err]
         ELSE [s |-> Call(p.setFn, s, r.vals), err |-> Nil])

\* prop.assign
assign(p, s, args) ==
  IF args = Chars("unset")
  THEN (IF p.unsetFn = ""
        THEN [s |-> s, err |-> Errorf(Chars("no unset method defined"))]
        ELSE [s |-> Call(p.unsetFn, s, <<>>), err |-> Nil])
  ELSE Let(readArgs(p, args), LAMBDA r :
         IF ~r.err.nil THEN [s |-> s, err |-> r.err]
         ELSE IF r.pos < Len(args)
         THEN [s |-> s,
               err |-> Errorf(Chars("excess values at end: ...")
                              \o SubSeq(args, r.pos + 1, Len(args)))]
         ELSE [s |-> Call(p.setFn, s, r.vals), err |-> Nil])

(***************************************************************************)
(* Import                                                                  *)
(***************************************************************************)

\* fmt.Errorf("in %q: %v", a, err)
InErr(a, e) == Errorf(Chars("in ") \o Quote(a) \o Chars(": ") \o e.text)

\* Import, one pass of the loop, with the setter applied to a new style
\* instead of the style the loop holds.
ImportOne_fromNewStyle(s, a0) ==
  Let(TrimSpace(a0), LAMBDA a :
    IF a = <<>> THEN [s |-> s, err |-> Nil]
    ELSE IF a = Chars("clear") THEN [s |-> NewStyle, err |-> Nil]
    ELSE Let(SplitN2(a, 58), LAMBDA pair :
      IF Len(pair) # 2
      THEN [s |-> s, err |-> Errorf(Chars("invalid syntax: ") \o Quote(a))]
      ELSE Let(getProp(TrimSpace(pair[1])), LAMBDA p :
        IF ~p.err.nil THEN [s |-> s, err |-> InErr(a, p.err)]
        ELSE Let(assign(p, NewStyle, TrimSpace(pair[2])), LAMBDA r :
          IF ~r.err.nil THEN [s |-> s, err |-> InErr(a, r.err)]
          ELSE [s |-> r.s, err |-> Nil]))))

\* Import, one pass of the loop, with the keyword clear skipped like an
\* empty assignment.
ImportOne_clearSkipped(s, a0) ==
  Let(TrimSpace(a0), LAMBDA a :
    IF a = <<>> \/ a = Chars("clear") THEN [s |-> s, err |-> Nil]
    ELSE Let(SplitN2(a, 58), LAMBDA pair :
      IF Len(pair) # 2
      THEN [s |-> s, err |-> Errorf(Chars("invalid syntax: ") \o Quote(a))]
      ELSE Let(getProp(TrimSpace(pair[1])), LAMBDA p :
        IF ~p.err.nil THEN [s |-> s, err |-> InErr(a, p.err)]
        ELSE Let(assign(p, s, TrimSpace(pair[2])), LAMBDA r :
          IF ~r.err.nil THEN [s |-> r.s, err |-> InErr(a, r.err)]
          ELSE [s |-> r.s, err |-> Nil]))))

\* Import, one pass of the loop: the assignment a0 applied to the style s.
ImportOne(s, a0) ==
  Let(TrimSpace(a0), LAMBDA a :
    IF a = <<>> THEN [s |-> s, err |-> Nil]
    ELSE IF a = Chars("clear") THEN [s |-> NewStyle, err |-> Nil]
    ELSE Let(SplitN2(a, 58), LAMBDA pair :
      IF Len(pair) # 2
      THEN [s |-> s, err |-> Errorf(Chars("invalid syntax: ") \o Quote(a))]
      ELSE Let(getProp(TrimSpace(pair[1])), LAMBDA p :
        IF ~p.err.nil THEN [s |-> s, err |-> InErr(a, p.err)]
        ELSE Let(assign(p, s, TrimSpace(pair[2])), LAMBDA r :
          IF ~r.err.nil THEN [s |-> r.s, err |-> InErr(a, r.err)]
          ELSE [s |-> r.s, err |-> Nil]))))

\* Import with the loop running over the assignments from the last to the
\* first.
RECURSIVE ImportRange_lastToFirst(_, _, _, _)
ImportRange_lastToFirst(s, assignments, lo, hi) ==
  IF lo > hi THEN [s |-> s, err |-> Nil]
  ELSE IF lo = hi THEN ImportOne(s, assignments[lo])
  ELSE Let(ImportRange_lastToFirst(s, assignments, (lo + hi) \div 2 + 1, hi), LAMBDA right :
         IF ~right.err.nil THEN right
         ELSE ImportRange_lastToFirst(right.s, assignments, lo, (lo + hi) \div 2))

\* Import with the loop going on after an assignment that fails, the error
\* returned being the last one met.
RECURSIVE ImportRange_goesOn(_, _, _, _)
ImportRange_goesOn(s, assignments, lo, hi) ==
  IF lo > hi THEN [s |-> s, err |-> Nil]
  ELSE IF lo = hi THEN ImportOne(s, assignments[lo])
  ELSE Let(ImportRange_goesOn(s, assignments, lo, (lo + hi) \div 2), LAMBDA left :
       Let(ImportRange_goesOn(left.s, assignments, (lo + hi) \div 2 + 1, hi), LAMBDA right :
         [s |-> right.s, err |-> IF right.err.nil THEN left.err ELSE right.err]))

\* Import, the passes lo..hi of the loop, by halves: the loop returns at the
\* first pass that fails, with the style as that pass left it.
RECURSIVE ImportRange(_, _, _, _)
ImportRange(s, assignments, lo, hi) ==
  IF lo > hi THEN [s |-> s, err |-> Nil]
  ELSE IF lo = hi THEN ImportOne(s, assignments[lo])
  ELSE Let(ImportRange(s, assignments, lo, (lo + hi) \div 2), LAMBDA left :
         IF ~left.err.nil THEN left
         ELSE ImportRange(left.s, assignments, (lo + hi) \div 2 + 1, hi))

\* Import(dst, input): the style and the error it returns.
Import(s, in) ==
  Let(Split(in, 59), LAMBDA assignments : ImportRange(s, assignments, 1, Len(assignments)))

(***************************************************************************)
(* Export                                                                  *)
(***************************************************************************)

\* printValue
printValue(type, v) ==
  IF type = "TerminalColor"
  THEN (IF v.t = "NoColor" THEN Chars("none")
        ELSE IF v.t = "Color" THEN v.light
        ELSE IF v.t = "AdaptiveColor"
        THEN Chars("adaptive(") \o v.light \o << 44 >> \o v.dark \o << 41 >>
        ELSE << 35 >> \o Hex02(v.rgb[1]) \o Hex02(v.rgb[2]) \o Hex02(v.rgb[3]))
  ELSE IF type = "Border"
  THEN Chars("border(")
       \o Join([i \in 1..Len(BorderFields) |-> Quote(v[BorderFields[i]])], << 44 >>)
       \o << 41 >>
  ELSE IF type = "bool" THEN (IF v THEN Chars("true") ELSE Chars("false"))
  ELSE IF type = "Position" THEN FormatFloat(v)
  ELSE Itoa(v)

\* reflect's Value.IsZero; an interface value is zero only when it is nil,
\* and no getter returns a nil color.
IsZero(type, v) ==
  IF type = "bool" THEN v = FALSE
  ELSE IF type = "TerminalColor" THEN FALSE
  ELSE IF type = "Border" THEN v = NoBorder
  ELSE v = 0

\* isDefault without the case of the colors: only reflect's zero is a default.
isDefault_zeroOnly(type, v) == IsZero(type, v)

\* isDefault
isDefault(type, v) ==
  IF IsZero(type, v) THEN TRUE
  ELSE IF type = "TerminalColor" THEN v.t = "NoColor"
  ELSE FALSE

ignoredMethods ==
  { "GetBorder", "GetMargin", "GetPadding", "GetFrameSize", "GetVerticalFrameSize",
    "GetHorizontalFrameSize", "GetVerticalMargins", "GetHorizontalMargins",
    "GetVerticalPadding", "GetHorizontalPadding", "GetVerticalBorderSize",
    "GetHorizontalBorderSize" }

\* The options of Export: options{includeDefaults, sep}.
Options(includeDefaults, sep) == [includeDefaults |-> includeDefaults, sep |-> sep]

\* Export, whether the loop over the methods reaches the write for the
\* i-th method.
Exported(s, opt, i) ==
  /\ HasPrefix(MethodNames[i], Chars("Get"))
  /\ Methods[i].name \notin ignoredMethods
  /\ Len(Methods[i].in) = 0
  /\ ~(/\ ~opt.includeDefaults
       /\ Len(Methods[i].res) = 1
       /\ isDefault(Methods[i].res[1], Get(Methods[i].name, s)))

\* Export, the text the loop writes for the i-th method after the separator.
ExportEntry(s, i) ==
  snakeCase(TrimPrefix(MethodNames[i], Chars("Get")))
  \o Chars(": ")
  \o printValue(Methods[i].res[1], Get(Methods[i].name, s))
  \o << 59 >>

\* Export(s, opts...): the separator is written before every entry but the
\* first, the buffer being empty until an entry is written.
Export(s, opt) ==
  LET written == { i \in 1..Len(Methods) : Exported(s, opt, i) }
  IN  Flatten([i \in 1..Len(Methods) |->
                 IF i \notin written THEN <<>>
                 ELSE (IF \E j \in written : j < i THEN opt.sep ELSE <<>>)
                      \o ExportEntry(s, i)])

(***************************************************************************)
(* The callers of the package                                              *)
(*                                                                         *)
(* A caller builds a style with the methods of lipgloss, hands it to       *)
(* Import with a text, exports the style it holds, and imports the         *)
(* exported text into a new style.                                         *)
(***************************************************************************)

\* The largest integer written in a directive.
MaxInt == 2

\* The largest number of values given to a variadic property.
MaxArgs == 5

\* A chain of setter calls on a style: cs is a sequence of << method, value >>.
RECURSIVE Chain(_, _)
Chain(s, cs) ==
  IF cs = <<>> THEN s ELSE Chain(Call(Head(cs)[1], s, << Head(cs)[2] >>), Tail(cs))

\* The styles the tests and the README build before they call the package.
StartStyles ==
  { NewStyle,
    Chain(NewStyle, << << "PaddingLeft", 11 >> >>),
    Chain(NewStyle, << << "Foreground", Color(Chars("11")) >> >>),
    Chain(NewStyle,
          << << "Bold", TRUE >>, << "Align", PosCenter >>,
             << "Foreground", Color(Chars("#FAFAFA")) >>,
             << "Background", Color(Chars("#7D56F4")) >>,
             << "BorderTopForeground", Color(Chars("12")) >>,
             << "PaddingTop", 2 >>, << "PaddingLeft", 4 >>, << "Width", 22 >> >>),
    Chain(NewStyle,
          << << "Bold", TRUE >>, << "Align", PosCenter >>,
             << "Foreground", Color(Chars("#FAFAFA")) >>,
             << "Background", AdaptiveColor(Chars("#7D56F4"), Chars("#112233")) >>,
             << "BorderTopForeground", Color(Chars("12")) >>,
             << "BorderStyle", RoundedBorder >>,
             << "PaddingTop", 2 >>, << "PaddingLeft", 4 >>, << "Width", 22 >> >>) }

\* The directive "name: args".
Directive(name, args) == Chars(name) \o Chars(": ") \o args

\* The values 1 2 ... k separated by spaces.
Numbers(k) == Join([i \in 1..k |-> Itoa(i)], << 32 >>)

Unset == Chars("unset")

ABorder == Chars("border(\"a\",\"b\",\"c\",\"d\",\"e\",\"f\",\"g\",\"h\")")

\* The explicit border of eight quoted fields, as the text writes them.
BorderText(fs) ==
  Chars("border(")
  \o Join([i \in 1..Len(fs) |-> << 34 >> \o fs[i] \o << 34 >>], << 44 >>)
  \o Chars(")")

\* The escapes of the test, the fields top, bottom, left, right, top-left,
\* top-right, bottom-right, bottom-left.
TestEscapes ==
  << Chars("\\\""), Chars("\\x41"), Chars("\\102"), Chars("\\u0041"),
     Chars("\\U00000041"), Chars("abc"), Chars("a\\\"b"), Chars("\\\\") >>

\* A code point written with decimal digits only, and two with the hex
\* digits e and C.
DigitEscapes ==
  << Chars("\\u2500"), Chars("b"), Chars("c"), Chars("d"),
     Chars("e"), Chars("f"), Chars("g"), Chars("h") >>

HexEscapes ==
  << Chars("\\u00e9"), Chars("b"), Chars("c"), Chars("d"),
     Chars("\\u250C"), Chars("f"), Chars("g"), Chars("h") >>

\* Literal characters other than the backslash and the double quote.
Literals ==
  << Chars("a'b"), Chars(","), Chars(")"), Chars(" "),
     Chars(":"), Chars("x y"), Chars("#"), Chars("-") >>

SemicolonLiteral ==
  << Chars(";"), Chars("b"), Chars("c"), Chars("d"),
     Chars("e"), Chars("f"), Chars("g"), Chars("h") >>

\* Directives Import accepts, grouped by the property they name.
BoldTexts == { Directive("bold", a) : a \in { Chars("true"), Chars("false"), Unset } }

PaddingLeftTexts ==
  { Directive("padding-left", a) : a \in { Itoa(n) : n \in 0..MaxInt } \cup { Unset } }

PaddingTexts == { Directive("padding", a) : a \in { Numbers(k) : k \in 0..MaxArgs } \cup { Unset } }

AlignTexts ==
  { Directive("align", a) : a \in { Chars("top"), Chars("center"), Chars("1.0"), Unset } }

ForegroundTexts ==
  { Directive("foreground", a) :
      a \in { Chars("none"), Chars("11"), Chars("#123"), Chars("adaptive(1,2)"), Unset } }

BorderStyleTexts == { Directive("border-style", a) : a \in { Chars("rounded"), ABorder, Unset } }

BorderTexts ==
  { Directive("border", a) :
      a \in { Chars("rounded"), ABorder \o Chars(" true false"),
              Chars("hidden true false true false true") } }

BorderForegroundTexts ==
  { Directive("border-foreground", a) : a \in { <<>>, Chars("1"), Chars("1 2"), Unset } }

OtherTexts ==
  { Chars("margin: 1 2"), Chars("copy:"), Chars("unsetBold:"), Chars(" Italic : T "),
    Chars("width:22"), Chars("border-top-background: #abcdef"),
    Chars("bold:unset"), Chars(" width :  unset "),
    Chars("foreground: #123456"), Chars("foreground: adaptive( #abc , 2 )"),
    Chars("foreground: adaptive(1 x,2)"),
    Directive("border-style", BorderText(TestEscapes)),
    Directive("border-style", BorderText(DigitEscapes)),
    Directive("border-style", BorderText(Literals)),
    Chars("align: bottom"), Chars("align: left"), Chars("align: right"),
    Chars("align: 0.5"), Chars("align: 0"), Chars("align: .0"), Chars("align: 1") }

Groups ==
  { BoldTexts, PaddingLeftTexts, PaddingTexts, AlignTexts, ForegroundTexts,
    BorderStyleTexts, BorderTexts, BorderForegroundTexts }

GoodTexts == UNION Groups \cup OtherTexts

\* Directives Import rejects.
BadTexts ==
  { Chars("bold"), Chars("set-bold: true"), Chars("unset-bold: x"), Chars("get-bold: x"),
    Chars("set-width: 1"), Chars("unset-foreground: unset"), Chars("get-width:"),
    Chars("bold: Unset"), Chars("width: unset 1"),
    Chars("foreground: red"), Chars("foreground: #12"), Chars("foreground: adaptive(1,b)"),
    Chars("foreground: adaptive(1,2,3)"),
    Directive("border-style", BorderText(HexEscapes)),
    Directive("border-style", BorderText(SemicolonLiteral)),
    Chars("bogus: 1"), Chars("bold: maybe"), Chars("bold: true extra"), Chars("bold:"),
    Chars("border: unset"), Chars("margin: unset"), Chars("border-top-background: unset"),
    Chars("align: 0.25"), Chars("align: 0.75"), Chars("align: 1.5"), Chars("align: 2"),
    Chars("align: middle"), Chars("align: -1"), Chars("foreground: #axxa"),
    Chars("foreground: adaptive(a,b)"), Chars("inherit: x"), Chars("string: x"),
    Chars("width: 1 2"), Chars("copy: x"), Chars("width: 1 2 3"), Chars("bold: true  false "), Chars("padding: 1 x"),
    Chars("align: center 1"), Chars("foreground: 11 12"),
    Chars("border-style: rounded thick") }

\* Directives before and after a failing one or a clear.
Before == { <<>>, Chars("bold: true"), Chars("padding: 1 2") }

After == { <<>>, Chars("width: 2"), Chars("bold") }

Then(a, b) == a \o Chars("; ") \o b

\* Two directives that name the same property.
SameProperty == UNION { g \X g : g \in Groups }

\* A failing directive between two others.
Around == (Before \ { <<>> }) \X BadTexts \X (After \ { <<>> })

\* The texts handed to Import.
Inputs ==
  GoodTexts \cup BadTexts
  \cup { Then(ab[1], ab[2]) : ab \in SameProperty }
  \cup { Then(t[1], Then(t[2], t[3])) : t \in Around }
  \cup { Then(c[1], Then(Chars("clear"), c[2])) : c \in Before \X After }
  \cup { <<>>, Chars("clear"), Chars(" ; ;clear ;"), Chars("bold: true; clear; clear; faint: 1") }

\* The options handed to Export.
OptionSets == { Options(FALSE, << 32 >>), Options(FALSE, << 10 >>), Options(TRUE, << 10 >>) }

NoOptions == Options(FALSE, <<>>)

NoResult == [s |-> NewStyle, err |-> Nil]

(***************************************************************************)
(* State                                                                   *)
(*   dst    the style the caller holds                                     *)
(*   src    the style handed to the last call of Import                    *)
(*   input  the text handed to the last call of Import                     *)
(*   err    the error the last call of Import returned                     *)
(*   opts   the options of the last call of Export                         *)
(*   out    the text the last call of Export returned                      *)
(*   back   what Import returned for the exported text and a new style     *)
(*   pc     the last call made                                             *)
(***************************************************************************)

Init ==
  /\ dst \in StartStyles
  /\ src = NewStyle
  /\ input = <<>>
  /\ err = Nil
  /\ opts = NoOptions
  /\ out = <<>>
  /\ back = NoResult
  /\ pc = "start"

\* dst, err = Import(dst, in)
ImportText ==
  /\ pc = "start"
  /\ \E in \in Inputs :
       /\ src' = dst
       /\ input' = in
       /\ dst' = Import(dst, in).s
       /\ err' = Import(dst, in).err
  /\ pc' = "imported"
  /\ UNCHANGED << opts, out, back >>

\* out = Export(dst, o)
ExportStyle ==
  /\ pc \in { "start", "imported" }
  /\ \E o \in OptionSets :
       /\ opts' = o
       /\ out' = Export(dst, o)
  /\ pc' = "exported"
  /\ src' = NewStyle
  /\ input' = <<>>
  /\ err' = Nil
  /\ UNCHANGED << dst, back >>

\* back = Import(lipgloss.NewStyle(), out)
ImportExported ==
  /\ pc = "exported"
  /\ back' = Import(NewStyle, out)
  /\ pc' = "reimported"
  /\ UNCHANGED << dst, src, input, err, opts, out >>

Next == ImportText \/ ExportStyle \/ ImportExported

Spec == Init /\ [][Next]_vars

(***************************************************************************)
(* Properties of Import and Export                                         *)
(***************************************************************************)

\* The getters Export writes an entry for, by their place in the method set.
Attributes ==
  { i \in 1..Len(Methods) :
      /\ HasPrefix(MethodNames[i], Chars("Get"))
      /\ Methods[i].name \notin ignoredMethods
      /\ Len(Methods[i].in) = 0 }

\* The name Export writes for a getter.
AttributeName == [i \in Attributes |-> snakeCase(TrimPrefix(MethodNames[i], Chars("Get")))]

\* Attribute-wise comparison of two styles.
SameAttributes(a, b) ==
  \A i \in Attributes : Get(Methods[i].name, a) = Get(Methods[i].name, b)

\* Whether the text t holds the text w.
Contains(t, w) == \E k \in 0..(Len(t) - Len(w)) : SubSeq(t, k + 1, k + Len(w)) = w

\* The error Import returns for the failing directive d: "in %q: %v".
In(d, msg) == Errorf(Chars("in ") \o Quote(d) \o Chars(": ") \o msg)

\* C1 (as claimed): a style exported with its defaults and imported into a
\* new style gives no error and a style equal to it attribute by attribute.
C1_RoundTrip ==
  (pc = "reimported" /\ opts.includeDefaults)
    => (back.err.nil /\ SameAttributes(back.s, dst))

\* The second of two directives on one property, by the text that holds both.
SecondOf ==
  [t \in { Then(ab[1], ab[2]) : ab \in SameProperty } |->
     (CHOOSE ab \in SameProperty : Then(ab[1], ab[2]) = t)[2]]

\* The name a directive gives and the values that follow it.
PropertyOf(d) == TrimSpace(SplitN2(d, 58)[1])

Values(d) == SelectSeq(Split(TrimSpace(SplitN2(d, 58)[2]), 32), LAMBDA w : w # <<>>)

\* The properties that take the values of the four sides.
FourSided ==
  { Chars("padding"), Chars("margin"), Chars("border-foreground"),
    Chars("border-background") }

\* C2 (as claimed): of two directives on one property the second alone
\* decides the style, whatever the values.
C2_LastWriteWins ==
  (pc = "imported" /\ input \in DOMAIN SecondOf)
    => dst = Import(src, SecondOf[input]).s

\* C2 (amended): of two accepted directives on one property the second alone
\* decides the style, provided that it gives one to four values when the
\* property is padding, margin, border-foreground or border-background: with
\* no value or more than four the setter leaves the style as the first
\* directive made it.
C2_LastWriteWinsUpToFourValues ==
  (/\ pc = "imported"
   /\ input \in DOMAIN SecondOf
   /\ PropertyOf(SecondOf[input]) \in FourSided => Len(Values(SecondOf[input])) \in 1..4)
    => (err.nil /\ dst = Import(src, SecondOf[input]).s)

\* Reached: a first directive that changed the style and was overridden.
C2_Witness ==
  /\ pc = "imported"
  /\ input = Then(Chars("padding: 1"), Chars("padding: 1 2"))
  /\ dst # src
  /\ dst # Import(src, Chars("padding: 1")).s
  /\ dst = Import(src, Chars("padding: 1 2")).s

\* What the directives of Before do to a style, by the setters they name.
Preceding(s, x) ==
  IF x = Chars("bold: true") THEN Call("Bold", s, << TRUE >>)
  ELSE IF x = Chars("padding: 1 2") THEN Call("Padding", s, << 1, 2 >>)
  ELSE s

\* The directives before the failing one and the failing one, by the text.
FailingIn ==
  [t \in BadTexts \cup { Then(a[1], Then(a[2], a[3])) : a \in Around } |->
     IF t \in BadTexts THEN << <<>>, t >>
     ELSE (CHOOSE a \in Around : Then(a[1], Then(a[2], a[3])) = t)]

\* C3: when a directive fails, Import returns an error, the one of that
\* directive, and the style as the directives before it made it: the failing
\* directive and those after it change nothing.
C3_StopAtFirstError ==
  (pc = "imported" /\ input \in DOMAIN FailingIn)
    => /\ ~err.nil
       /\ err = Import(NewStyle, FailingIn[input][2]).err
       /\ dst = Preceding(src, FailingIn[input][1])

\* Reached: a failure after a directive that changed the style and before
\* one that would have.
C3_Witness ==
  /\ pc = "imported"
  /\ input = Chars("padding: 1 2; bold: maybe; width: 2")
  /\ ~err.nil
  /\ dst # src
  /\ dst["Width"] = src["Width"]

\* The assignments of a text: its pieces between semicolons, trimmed, the
\* empty ones left out.
Directives(t) ==
  Let(Split(t, 59), LAMBDA pieces :
    SelectSeq([i \in 1..Len(pieces) |-> TrimSpace(pieces[i])], LAMBDA d : d # <<>>))

HasClear(t) == Let(Directives(t), LAMBDA ds : \E k \in 1..Len(ds) : ds[k] = Chars("clear"))

\* The property names the directives of a text give.
Named(t) == Let(Directives(t), LAMBDA ds : { PropertyOf(ds[k]) : k \in 1..Len(ds) })

\* The rules of the style each method of lipgloss writes.
Written(m) ==
  IF m \in Keys THEN { m }
  ELSE IF m \in { "Padding", "UnsetPadding" }
  THEN { "PaddingTop", "PaddingRight", "PaddingBottom", "PaddingLeft" }
  ELSE IF m \in { "Margin", "UnsetMargins" }
  THEN { "MarginTop", "MarginRight", "MarginBottom", "MarginLeft" }
  ELSE IF m \in { "BorderForeground", "UnsetBorderForeground" }
  THEN { "BorderTopForeground", "BorderRightForeground", "BorderBottomForeground",
         "BorderLeftForeground" }
  ELSE IF m \in { "BorderBackground", "UnsetBorderBackground" }
  THEN { "BorderTopBackground", "BorderRightBackground", "BorderBottomBackground",
         "BorderLeftBackground" }
  ELSE IF m = "Border"
  THEN { "BorderStyle", "BorderTop", "BorderRight", "BorderBottom", "BorderLeft" }
  ELSE IF m = "UnsetBorderTopBackgroundColor" THEN { "BorderTopBackground" }
  ELSE IF Len(m) > Len("Unset") /\ SubSeq(m, 1, Len("Unset")) = "Unset"
  THEN { SubSeq(m, Len("Unset") + 1, Len(m)) } \cap Keys
  ELSE {}

\* The rules of the style each getter reads.
Reads(g) ==
  IF g = "GetBorderTopWidth" THEN { "BorderTop", "BorderStyle" }
  ELSE IF g = "GetBorderLeftSize" THEN { "BorderLeft", "BorderStyle" }
  ELSE IF g = "GetBorderBottomSize" THEN { "BorderBottom", "BorderStyle" }
  ELSE IF g = "GetBorderRightSize" THEN { "BorderRight", "BorderStyle" }
  ELSE { SubSeq(g, Len("Get") + 1, Len(g)) }

\* The rules written by the methods the directives of an accepted text
\* resolve to.
WrittenBy(t) ==
  UNION { Written(MethodByName(camelCase(n)).name) : n \in Named(t) }

\* C4 (as claimed): after a successful Import of a text without clear, every
\* property whose name no directive gives has the value it had.
C4_Frame ==
  (pc = "imported" /\ err.nil /\ ~HasClear(input))
    => Let(Named(input), LAMBDA named :
         \A i \in Attributes :
           AttributeName[i] \notin named
             => Get(Methods[i].name, dst) = Get(Methods[i].name, src))

\* C4 (amended): after a successful Import of a text without clear, every
\* property has the value it had unless it reads a rule written by the method
\* a directive resolves to: a four-sided shorthand writes its four sides,
\* border writes the border style and the four border sides, a name spelled
\* like a method (Italic, unsetBold) resolves to it, and the border sizes
\* read the border style and their side.
C4_FrameOfResolvedMethods ==
  (pc = "imported" /\ err.nil /\ ~HasClear(input))
    => Let(WrittenBy(input), LAMBDA written :
         \A i \in Attributes :
           Reads(Methods[i].name) \cap written = {}
             => Get(Methods[i].name, dst) = Get(Methods[i].name, src))

\* Reached: a directive changed a style that held other properties, which it
\* kept.
C4_Witness ==
  /\ pc = "imported"
  /\ input = Chars("foreground: #123; foreground: 11")
  /\ err.nil
  /\ src["Width"].set /\ src["Bold"].set
  /\ dst # src
  /\ dst["Width"] = src["Width"] /\ dst["Bold"] = src["Bold"]

\* The directives after the clear, by the text that holds a clear between
\* directives of Before and of After.
AfterClear ==
  [t \in { Then(c[1], Then(Chars("clear"), c[2])) : c \in Before \X After } |->
     (CHOOSE c \in Before \X After : Then(c[1], Then(Chars("clear"), c[2])) = t)[2]]

\* C5: Import(s, "clear") is the new style for every s, and what Import
\* returns for X; clear; Y, X accepted, is what it returns for Y and a new
\* style, whatever s and X.
C5_Reset ==
  /\ (pc = "imported" /\ input \in { Chars("clear"), Chars(" ; ;clear ;") })
       => (err.nil /\ dst = NewStyle)
  /\ (pc = "imported" /\ input = Chars("bold: true; clear; clear; faint: 1"))
       => (err.nil /\ dst = Call("Faint", NewStyle, << TRUE >>))
  /\ (pc = "imported" /\ input \in DOMAIN AfterClear)
       => /\ dst = Import(NewStyle, AfterClear[input]).s
          /\ err = Import(NewStyle, AfterClear[input]).err

\* Reached: a clear after a directive, on a style that held properties, all
\* gone from the result.
C5_Witness ==
  /\ pc = "imported"
  /\ input = Chars("bold: true; clear; width: 2")
  /\ src # NewStyle
  /\ err.nil
  /\ dst = Call("Width", NewStyle, << 2 >>)

\* The text of the zero value of each kind.
ZeroText(type) ==
  IF type = "bool" THEN Chars("false")
  ELSE IF type = "TerminalColor" THEN Chars("none")
  ELSE IF type = "Border" THEN Chars("border(\"\",\"\",\"\",\"\",\"\",\"\",\"\",\"\")")
  ELSE Chars("0")

\* Whether a getter returns the zero value of its kind, for a color no color.
AtDefault(i, s) == Get(Methods[i].name, s) = ZeroOf(Methods[i].res[1]).v

\* C6: Export writes an entry "name: value;" for a getter that is not
\* ignored exactly when the defaults are asked for or the value is not the
\* zero value of its kind (no color, for a color), and writes nothing else;
\* so the export of a new style is empty, and with the defaults it holds one
\* entry for every such getter, at its zero value.
C6_DefaultSuppression ==
  pc = "exported"
    => Let(Directives(out), LAMBDA entries :
         /\ \A i \in Attributes :
              (\E k \in 1..Len(entries) : PropertyOf(entries[k]) = AttributeName[i])
                <=> (opts.includeDefaults \/ ~AtDefault(i, dst))
         /\ \A k \in 1..Len(entries) :
              \E i \in Attributes : PropertyOf(entries[k]) = AttributeName[i]
         /\ out # <<>> => out[Len(out)] = 59
         /\ (dst = NewStyle /\ ~opts.includeDefaults) => out = <<>>
         /\ (dst = NewStyle /\ opts.includeDefaults)
              => /\ Len(entries) = Cardinality(Attributes)
                 /\ \A i \in Attributes :
                      \E k \in 1..Len(entries) :
                        entries[k] = AttributeName[i] \o Chars(": ")
                                     \o ZeroText(Methods[i].res[1]))

\* Reached: an export without the defaults of a style that holds a color set
\* to no color, left out, beside a property that is written.
C6_Witness ==
  /\ pc = "exported"
  /\ ~opts.includeDefaults
  /\ dst["Foreground"].set /\ dst["Foreground"].v = NoColor
  /\ dst["Bold"].v
  /\ Contains(out, Chars("bold: true;"))
  /\ Chars("foreground") \notin Named(out)

\* The failing directives whose name starts with one of the three prefixes.
Prefixed(d) ==
  \/ HasPrefix(PropertyOf(d), Chars("set-"))
  \/ HasPrefix(PropertyOf(d), Chars("unset-"))
  \/ HasPrefix(PropertyOf(d), Chars("get-"))

UnsetDirectives ==
  { d \in GoodTexts \cup BadTexts :
      /\ Len(SplitN2(TrimSpace(d), 58)) = 2
      /\ TrimSpace(SplitN2(TrimSpace(d), 58)[2]) = Unset
      /\ getProp(PropertyOf(d)).err.nil }

\* The properties of these directives for which lipgloss has an Unset
\* method, and the rules of the style that method removes.
Unsettable ==
  { Chars("bold"), Chars("width"), Chars("padding-left"), Chars("padding"), Chars("align"),
    Chars("foreground"), Chars("border-style"), Chars("border-foreground") }

Removed(n) ==
  IF n = Chars("padding")
  THEN { "PaddingTop", "PaddingRight", "PaddingBottom", "PaddingLeft" }
  ELSE IF n = Chars("border-foreground")
  THEN { "BorderTopForeground", "BorderRightForeground", "BorderBottomForeground",
         "BorderLeftForeground" }
  ELSE { k \in Keys : Chars(k) = camelCase(n) }

\* The properties found from the names of all the methods of the style.
Discovered == { discoverProp(snakeCase(MethodNames[i])) : i \in 1..Len(Methods) }

\* An unsetter is attached only where the method Unset<Name> exists, takes
\* no argument and returns a style.
AttachedWhereExists ==
  \A p \in Discovered :
    p.unsetFn # "" =>
      /\ p.err.nil
      /\ p.unsetFn = "Unset" \o p.setFn
      /\ HasMethod(Chars(p.unsetFn))
      /\ MethodByName(Chars(p.unsetFn)).in = <<>>
      /\ MethodByName(Chars(p.unsetFn)).res = << "Style" >>

\* No value parser takes the word unset.
NoParserTakesUnset == \A type \in ArgKinds : ~parse(type, Unset, 0).err.nil

\* C8: the directive p: unset on a resolvable property runs no value parser;
\* where p has an Unset method the result is the style with the rules of p
\* removed and no error, where it has none Import fails with no unset method
\* defined and the style is unchanged; an unsetter is attached only where
\* the Unset method exists and returns a style.
C8_Unset ==
  /\ (pc = "imported" /\ input \in UnsetDirectives)
       => Let(PropertyOf(input), LAMBDA n :
            IF n \in Unsettable
            THEN /\ err.nil
                 /\ dst = [k \in Keys |->
                             IF k \in Removed(n) THEN ZeroOf(KeyType(k)) ELSE src[k]]
            ELSE /\ err = In(TrimSpace(input), Chars("no unset method defined"))
                 /\ dst = src)
  /\ (pc = "imported" /\ input \in { Chars("bold: Unset"), Chars("width: unset 1") })
       => /\ err = In(input, Chars("no value found"))
          /\ dst = src
  /\ NoParserTakesUnset
  /\ AttachedWhereExists

\* Reached: a set foreground removed by unset.
C8_Witness ==
  /\ pc = "imported"
  /\ input = Chars("foreground: unset")
  /\ src["Foreground"].set
  /\ ~dst["Foreground"].set
  /\ err.nil

\* The directives of the vocabulary with text left after the arguments of
\* the property, and the text left.
Excess ==
  { << Chars("bold: true extra"), Chars("extra") >>,
    << Chars("bold: true  false "), Chars("false") >>,
    << Chars("width: 1 2"), Chars("2") >>,
    << Chars("width: 1 2 3"), Chars("2 3") >>,
    << Chars("align: center 1"), Chars("1") >>,
    << Chars("foreground: 11 12"), Chars("12") >>,
    << Chars("border-style: rounded thick"), Chars("thick") >>,
    << Chars("copy: x"), Chars("x") >> }

ExcessOf == [d \in { e[1] : e \in Excess } |-> (CHOOSE e \in Excess : e[1] = d)[2]]

\* Whether the parsers of the property a directive names all succeed and
\* leave text.
LeavesText(d) ==
  /\ Len(SplitN2(TrimSpace(d), 58)) = 2
  /\ Let(getProp(PropertyOf(d)), LAMBDA p :
     Let(TrimSpace(SplitN2(TrimSpace(d), 58)[2]), LAMBDA args :
       /\ p.err.nil
       /\ args # Unset
       /\ Let(readArgs(p, args), LAMBDA r : r.err.nil /\ r.pos < Len(args))))

\* The directives above are those of the vocabulary that leave text, and
\* none of them names a variadic property.
ExcessIsAll ==
  /\ DOMAIN ExcessOf = { d \in GoodTexts \cup BadTexts : LeavesText(d) }
  /\ \A d \in DOMAIN ExcessOf : ~getProp(PropertyOf(d)).isVariadic

Positions ==
  { << Chars("align: top"), PosTop >>, << Chars("align: left"), PosTop >>,
    << Chars("align: bottom"), PosBottom >>, << Chars("align: right"), PosBottom >>,
    << Chars("align: center"), PosCenter >>,
    << Chars("align: 0"), ParseFloat(Chars("0")) >>,
    << Chars("align: .0"), ParseFloat(Chars(".0")) >>,
    << Chars("align: 0.25"), ParseFloat(Chars("0.25")) >>,
    << Chars("align: 0.5"), ParseFloat(Chars("0.5")) >>,
    << Chars("align: 0.75"), ParseFloat(Chars("0.75")) >>,
    << Chars("align: 1"), ParseFloat(Chars("1")) >>,
    << Chars("align: 1.0"), ParseFloat(Chars("1.0")) >> }

PositionOf == [d \in { e[1] : e \in Positions } |-> (CHOOSE e \in Positions : e[1] = d)[2]]

\* Directives on align whose token is no keyword and no literal in [0, 1].
NotPositions ==
  { Chars("align: 1.5"), Chars("align: 2"), Chars("align: middle"), Chars("align: -1") }

\* C10 (as claimed): top and left parse to 0.0, bottom and right to 1.0,
\* center to 0.5, every other floating-point literal in [0.0, 1.0], such as
\* 0.25 or 0.75, is accepted with its value, and any other token is rejected
\* with an error.
C10_PositionParser ==
  /\ (pc = "imported" /\ input \in DOMAIN PositionOf)
       => /\ err.nil
          /\ dst = [src EXCEPT !["Align"] = [set |-> TRUE, v |-> PositionOf[input]]]
  /\ (pc = "imported" /\ input \in NotPositions)
       => /\ ~err.nil
          /\ dst = src

\* The explicit borders of the vocabulary and the characters their fields
\* denote, in the order top, bottom, left, right, top-left, top-right,
\* bottom-right, bottom-left.
Denoted ==
  { << TestEscapes,
       << Chars("\""), Chars("A"), Chars("B"), Chars("A"),
          Chars("A"), Chars("abc"), Chars("a\"b"), Chars("\\") >> >>,
    << DigitEscapes,
       << << 9472 >>, Chars("b"), Chars("c"), Chars("d"),
          Chars("e"), Chars("f"), Chars("g"), Chars("h") >> >>,
    << HexEscapes,
       << << 233 >>, Chars("b"), Chars("c"), Chars("d"),
          << 9484 >>, Chars("f"), Chars("g"), Chars("h") >> >>,
    << Literals, Literals >>,
    << SemicolonLiteral, SemicolonLiteral >> }

DenotedBy ==
  [d \in { Directive("border-style", BorderText(e[1])) : e \in Denoted } |->
     (CHOOSE e \in Denoted : Directive("border-style", BorderText(e[1])) = d)[2]]

\* The border of eight decoded fields and the text Export writes for it.
BorderOf(fs) == Border(fs[1], fs[2], fs[3], fs[4], fs[5], fs[6], fs[7], fs[8])

Rendered(fs) ==
  Directive("border-style", BorderText([i \in 1..Len(fs) |-> Flatten([k \in 1..Len(fs[i]) |->
     IF fs[i][k] \in { 34, 92 } THEN << 92, fs[i][k] >> ELSE << fs[i][k] >>])]))
  \o Chars(";")

\* C11 (as claimed): an explicit border whose fields are built from the
\* escapes \\, \", \NNN, \xNN, \uNNNN, \UNNNNNNNN with hex digits and from
\* any other character but the backslash and the double quote is accepted,
\* its fields are decoded and assigned in the order top, bottom, left, right,
\* top-left, top-right, bottom-right, bottom-left, and Export renders the
\* decoded characters.
C11_BorderEscapes ==
  (pc = "imported" /\ input \in DOMAIN DenotedBy)
    => /\ err.nil
       /\ dst = [src EXCEPT !["BorderStyle"] = [set |-> TRUE, v |-> BorderOf(DenotedBy[input])]]
       /\ Contains(Export(dst, Options(FALSE, << 32 >>)), Rendered(DenotedBy[input]))

\* The directives on foreground whose argument is a color, and the color.
Colors ==
  { << Chars("foreground: none"), NoColor >>,
    << Chars("foreground: 11"), Color(Chars("11")) >>,
    << Chars("foreground: #123"), Color(Chars("#123")) >>,
    << Chars("foreground: #123456"), Color(Chars("#123456")) >>,
    << Chars("foreground: adaptive(1,2)"), AdaptiveColor(Chars("1"), Chars("2")) >>,
    << Chars("foreground: adaptive( #abc , 2 )"), AdaptiveColor(Chars("#abc"), Chars("2")) >> }

ColorOf == [d \in { e[1] : e \in Colors } |-> (CHOOSE e \in Colors : e[1] = d)[2]]

\* The directives on foreground whose argument is no color, and the token
\* that is not recognized.
NotColors ==
  { << Chars("foreground: #axxa"), Chars("#axxa") >>,
    << Chars("foreground: red"), Chars("red") >>,
    << Chars("foreground: #12"), Chars("#12") >>,
    << Chars("foreground: adaptive(a,b)"), Chars("a") >>,
    << Chars("foreground: adaptive(1,b)"), Chars("b") >>,
    << Chars("foreground: adaptive(1,2,3)"), Chars("adaptive(1,2,3)") >>,
    << Chars("foreground: adaptive(1 x,2)"), Chars("1 x") >> }

NotColorOf == [d \in { e[1] : e \in NotColors } |-> (CHOOSE e \in NotColors : e[1] = d)[2]]

\* C12 (as claimed): the color parser accepts none, a bare integer, #rgb,
\* #rrggbb and adaptive(A,B) with A and B plain color tokens, and nothing
\* else: for any other argument text Import fails with color not recognized
\* in an error that names the token, and the style is unchanged.
C12_ColorErrors ==
  /\ (pc = "imported" /\ input \in DOMAIN ColorOf)
       => /\ err.nil
          /\ dst = [src EXCEPT !["Foreground"] = [set |-> TRUE, v |-> ColorOf[input]]]
  /\ (pc = "imported" /\ input \in DOMAIN NotColorOf)
       => /\ ~err.nil
          /\ Contains(err.text, Chars("color not recognized"))
          /\ Contains(err.text, NotColorOf[input])
          /\ dst = src

====
